---- MODULE Spec2Model ----
(***************************************************************************)
(* Model of main.py: the command-line run of AudioWaveformConverter.       *)
(* One behaviour is one process run: the __main__ block, the constructor   *)
(* (_validate_ffmpeg), convert() with its read/downmix/render loop,        *)
(* _encode_video() and the finally-block cleanup.                          *)
(*                                                                         *)
(* The file system (workspace directory "_frames", output path), the       *)
(* audio file and the external encoder are the environment: their initial  *)
(* states and answers are drawn from small sets.                           *)
(*                                                                         *)
(* Amplitudes: the downmix of a frame is the mean over its channels, a     *)
(* rational.  The model keeps a series in units of 1/num_channels (the     *)
(* channel sum) and the vertical bounds in units of 1/(10*num_channels),   *)
(* so min*1.1 is the integer Min*11; comparisons are exact.                *)
(***************************************************************************)
EXTENDS Integers, Sequences, FiniteSets, TLC

\* ---- bounds of the model ------------------------------------------------
MaxRate == 3        \* sample rates 1..MaxRate (Hz)
MaxFps == 3         \* --fps values -1..MaxFps
MaxTotal == 4       \* total_sample_frames 0..MaxTotal
MaxChannels == 2    \* channel counts 1..MaxChannels
MaxStale == 5       \* index of a frame file an earlier run may have left

\* ---- 16-bit PCM ----------------------------------------------------------
INT16_MIN == -32768
INT16_MAX == 32767

\* The audio contents the model draws the input file from.
Waves == {"silence", "dc_neg", "square", "ramp_pos", "stereo_diff"}

\* Sample of channel c (0-based) of sample frame i (0-based) of a wave.
AudioSample(w, i, c) ==
    CASE w = "silence"     -> 0
      [] w = "dc_neg"      -> INT16_MIN
      [] w = "square"      -> IF i % 2 = 0 THEN INT16_MAX ELSE INT16_MIN
      [] w = "ramp_pos"    -> 100 + i
      [] w = "stereo_diff" -> IF c % 2 = 0 THEN 300 + i ELSE -100

\* ---- integer helpers -----------------------------------------------------
\* Python's a // b (floor division), b # 0.
FloorDiv(a, b) ==
    IF b > 0
      THEN IF a >= 0 THEN a \div b ELSE -(((-a) + b - 1) \div b)
      ELSE IF a <= 0 THEN (-a) \div (-b) ELSE -((a + (-b) - 1) \div (-b))

CeilDiv(a, b) == (a + b - 1) \div b

MinOf(a, b) == IF a < b THEN a ELSE b

RECURSIVE SeqMin(_)
SeqMin(s) == IF Len(s) = 1 THEN s[1] ELSE MinOf(s[1], SeqMin(Tail(s)))

RECURSIVE SeqMax(_)
SeqMax(s) == IF Len(s) = 1 THEN s[1]
             ELSE LET m == SeqMax(Tail(s)) IN IF s[1] > m THEN s[1] ELSE m

RECURSIVE SumSeq(_)
SumSeq(s) == IF s = <<>> THEN 0 ELSE s[1] + SumSeq(Tail(s))

\* ---- pure parts of the program -------------------------------------------

\* wave.readframes(n) with `remaining` sample frames left: the number of
\* sample frames returned.  n = 0 returns nothing; a negative n reads the
\* rest of the data chunk.
ReadFramesDropPartial(n, remaining) ==
    IF n <= 0 \/ remaining < n THEN 0 ELSE n

ReadFrames(n, remaining) ==
    IF n = 0 THEN 0
    ELSE IF n < 0 THEN remaining
    ELSE MinOf(n, remaining)

\* The interleaved int16 samples of n sample frames starting at `start`.
RawData(w, start, n, nch) ==
    [j \in 1..(n * nch) |->
        AudioSample(w, start + ((j - 1) \div nch), (j - 1) % nch)]

\* data.reshape(-1, num_channels).mean(axis=1), in units of 1/nch;
\* a mono block is passed through.
Downmix(raw, nch) ==
    IF nch > 1
      THEN [i \in 1..(Len(raw) \div nch) |->
               SumSeq(SubSeq(raw, (i - 1) * nch + 1, i * nch))]
      ELSE raw

\* The limits _render_frame passes to set_ylim, in units of 1/(10*nch):
\* np.min(data)*1.1 and np.max(data)*1.1.
YLim(series) ==
    [lower |-> SeqMin(series) * 11, upper |-> SeqMax(series) * 11]

\* One rendered frame: the block it was read from, its series, its limits.
RenderFrame(series, start) ==
    [start |-> start, series |-> series,
     lower |-> YLim(series).lower, upper |-> YLim(series).upper]

\* What _encode_video leaves in flight for each outcome of subprocess.run:
\* exit 0 returns normally, CalledProcessError is caught and turned into
\* sys.exit(1), FileNotFoundError is not caught.
EncodePendingSwallow(outcome) ==
    CASE outcome = "not_found" -> "Exception"
      [] OTHER                 -> "none"

EncodePending(outcome) ==
    CASE outcome = "ok"        -> "none"
      [] outcome = "not_found" -> "Exception"
      [] OTHER                 -> "SystemExit1"

\* What the encoder leaves at the output path (it is run with -y and writes
\* the output path in place).
EncodeOutput(outcome, old) ==
    CASE outcome = "ok"              -> "full"
      [] outcome = "nonzero_partial" -> "partial"
      [] OTHER                       -> old

\* Exit status of the interpreter: 0 on a normal end, the argument of
\* sys.exit, 1 for an uncaught exception.
ExitStatus(p) == IF p = "none" THEN 0 ELSE 1

\* ---- state ---------------------------------------------------------------
VARIABLES
    pc,             \* position of the process
    inputExists,    \* Path(args.input).exists()
    fps,            \* config["fps"], any integer argparse accepts
    wave,           \* contents of the audio file
    sample_rate, num_channels, total_frames,   \* header, once read
    chunk_size,     \* sample_rate // fps, once computed
    pos,            \* wav.tell(): sample frames consumed
    frame_count,    \* frames rendered so far
    frames,         \* rendered frames, in order
    wsKind,         \* what is at the workspace path: absent, dir, file
    wsFrames,       \* indexes k of frame_{k:05d}.png present in the workspace
    wsOther,        \* a non-PNG entry is present in the workspace
    output,         \* output path: absent, old, partial, full
    pending,        \* exception in flight: none, SystemExit1, Exception
    exitCode,       \* process exit status, -1 while running
    hist            \* what has happened so far (history, not program state)

vars == <<pc, inputExists, fps, wave, sample_rate, num_channels,
          total_frames, chunk_size, pos, frame_count, frames, wsKind,
          wsFrames, wsOther, output, pending, exitCode, hist>>

audio == <<wave, sample_rate, num_channels, total_frames, chunk_size>>
loop == <<pos, frame_count, frames>>
ws == <<wsKind, wsFrames, wsOther>>

NoHist == [probe |-> "not_run", mkdirDone |-> FALSE, audio |-> "not_opened",
           renderFailed |-> FALSE, loopEnded |-> FALSE,
           encoder |-> "not_run", encoderSaw |-> {}, cleanup |-> "not_run"]

\* Frame files an earlier run may have left in the workspace.
StaleSets == {{}, {0}, {MaxStale}}

Init ==
    /\ pc = "main"
    /\ inputExists \in BOOLEAN
    /\ fps \in -1..MaxFps
    /\ wave = "silence"
    /\ sample_rate = 0
    /\ num_channels = 0
    /\ total_frames = 0
    /\ chunk_size = 0
    /\ pos = 0
    /\ frame_count = 0
    /\ frames = <<>>
    /\ wsKind \in {"absent", "dir", "file"}
    /\ wsFrames \in StaleSets
    /\ wsOther \in BOOLEAN
    /\ (wsKind # "dir" => wsFrames = {} /\ ~wsOther)
    /\ output \in {"absent", "old"}
    /\ pending = "none"
    /\ exitCode = -1
    /\ hist = NoHist

\* ---- actions -------------------------------------------------------------

\* __main__: the input path is checked, then the converter is constructed.
Main ==
    /\ pc = "main"
    /\ IF inputExists
         THEN pc' = "validate" /\ exitCode' = exitCode
         ELSE pc' = "done" /\ exitCode' = 1
    /\ UNCHANGED <<inputExists, fps, audio, loop, ws, output, pending, hist>>

\* __init__ / _validate_ffmpeg: "ffmpeg -version" is run; a missing
\* executable or a non-zero exit ends the process with sys.exit(1).
ValidateFfmpegNoExit ==
    /\ pc = "validate"
    /\ \E probe \in {"ok", "missing", "nonzero"} :
         /\ hist' = [hist EXCEPT !.probe = probe]
         /\ pc' = "mkdir"
         /\ exitCode' = exitCode
    /\ UNCHANGED <<inputExists, fps, audio, loop, ws, output, pending>>

ValidateFfmpeg ==
    /\ pc = "validate"
    /\ \E probe \in {"ok", "missing", "nonzero"} :
         /\ hist' = [hist EXCEPT !.probe = probe]
         /\ IF probe = "ok"
              THEN pc' = "mkdir" /\ exitCode' = exitCode
              ELSE pc' = "done" /\ exitCode' = 1
    /\ UNCHANGED <<inputExists, fps, audio, loop, ws, output, pending>>

\* convert(), before the try: temp_dir.mkdir(exist_ok=True).  A regular
\* file at the path raises FileExistsError, outside the try/finally.
Mkdir ==
    /\ pc = "mkdir"
    /\ IF wsKind = "file"
         THEN /\ pc' = "done"
              /\ pending' = "Exception"
              /\ exitCode' = ExitStatus("Exception")
              /\ UNCHANGED <<ws, hist>>
         ELSE /\ pc' = "open"
              /\ wsKind' = "dir"
              /\ hist' = [hist EXCEPT !.mkdirDone = TRUE]
              /\ UNCHANGED <<wsFrames, wsOther, pending, exitCode>>
    /\ UNCHANGED <<inputExists, fps, audio, loop, output>>

\* convert(): wave.open and the header reads; chunk_size = rate // fps.
OpenAudio ==
    /\ pc = "open"
    /\ \/ /\ hist' = [hist EXCEPT !.audio = "undecodable"]
          /\ pending' = "Exception"
          /\ pc' = "cleanup"
          /\ UNCHANGED audio
       \/ \E w \in Waves, sr \in 1..MaxRate, nch \in 1..MaxChannels,
             tot \in 0..MaxTotal :
            /\ wave' = w
            /\ sample_rate' = sr
            /\ num_channels' = nch
            /\ total_frames' = tot
            /\ hist' = [hist EXCEPT !.audio = "opened"]
            /\ IF fps = 0
                 THEN /\ chunk_size' = chunk_size
                      /\ pending' = "Exception"
                      /\ pc' = "cleanup"
                 ELSE /\ chunk_size' = FloorDiv(sr, fps)
                      /\ pending' = pending
                      /\ pc' = "loop"
    /\ UNCHANGED <<inputExists, fps, loop, ws, output, exitCode>>

\* One iteration of the while loop: readframes, the end-of-data test,
\* frombuffer, the downmix, _render_frame (which may fail to write the
\* file) and the increment of frame_count.
ReadRender ==
    /\ pc = "loop"
    /\ LET n == ReadFrames(chunk_size, total_frames - pos)
           raw == RawData(wave, pos, n, num_channels)
       IN IF n = 0
            THEN /\ pc' = "encode"
                 /\ hist' = [hist EXCEPT !.loopEnded = TRUE]
                 /\ UNCHANGED <<loop, ws, pending>>
            ELSE \/ /\ frames' = Append(frames,
                            RenderFrame(Downmix(raw, num_channels), pos))
                    /\ wsFrames' = wsFrames \cup {frame_count}
                    /\ frame_count' = frame_count + 1
                    /\ pos' = pos + n
                    /\ pc' = "loop"
                    /\ UNCHANGED <<wsKind, wsOther, pending, hist>>
                 \/ /\ pos' = pos + n
                    /\ pending' = "Exception"
                    /\ hist' = [hist EXCEPT !.renderFailed = TRUE]
                    /\ pc' = "cleanup"
                    /\ UNCHANGED <<frame_count, frames, ws>>
    /\ UNCHANGED <<inputExists, fps, audio, output, exitCode>>

\* _encode_video: the encoder is run on frame_%05d.png of the workspace and
\* the input audio, writing the output path.
EncodeVideo ==
    /\ pc = "encode"
    /\ \E outcome \in {"ok", "nonzero_early", "nonzero_partial", "not_found"} :
         /\ hist' = [hist EXCEPT !.encoder = outcome,
                                 !.encoderSaw = wsFrames]
         /\ output' = EncodeOutput(outcome, output)
         /\ pending' = EncodePending(outcome)
    /\ pc' = "cleanup"
    /\ UNCHANGED <<inputExists, fps, audio, loop, ws, exitCode>>

\* The finally block of convert(): every *.png is unlinked, then rmdir,
\* which raises OSError when the directory is not empty; then the process
\* ends with whatever is in flight.
Cleanup ==
    /\ pc = "cleanup"
    /\ wsFrames' = {}
    /\ wsOther' = wsOther
    /\ IF wsOther
         THEN /\ wsKind' = wsKind
              /\ pending' = "Exception"
              /\ hist' = [hist EXCEPT !.cleanup = "failed"]
         ELSE /\ wsKind' = "absent"
              /\ pending' = pending
              /\ hist' = [hist EXCEPT !.cleanup = "ok"]
    /\ exitCode' = ExitStatus(pending')
    /\ pc' = "done"
    /\ UNCHANGED <<inputExists, fps, audio, loop, output>>

Next ==
    \/ Main
    \/ ValidateFfmpeg
    \/ Mkdir
    \/ OpenAudio
    \/ ReadRender
    \/ EncodeVideo
    \/ Cleanup

Spec == Init /\ [][Next]_vars

\* ---- properties ----------------------------------------------------------

ValidInput == fps >= 1 /\ sample_rate >= fps

\* The run has a frame rate of at least 1 that, once the audio is opened,
\* does not exceed its sample rate.
ValidRun == fps >= 1 /\ (hist.audio = "opened" => sample_rate >= fps)

\* Number of amplitude samples of rendered frame k (1-based in `frames`).
SeriesLen(k) == Len(frames[k].series)

RECURSIVE TotalSeriesLen(_)
TotalSeriesLen(k) == IF k = 0 THEN 0 ELSE SeriesLen(k) + TotalSeriesLen(k - 1)

\* C1: for every valid input (sample_rate >= fps >= 1), when the
\* read/downmix/render loop has ended, the number of frames rendered equals
\* ceil(total_sample_frames / floor(sample_rate / fps)).
C1_FrameCount ==
    (hist.loopEnded /\ ValidInput) =>
        frame_count = CeilDiv(total_frames, sample_rate \div fps)

\* The loop ended on a valid input whose last chunk was a short one.
C1_Witness ==
    /\ hist.loopEnded
    /\ ValidInput
    /\ total_frames % (sample_rate \div fps) # 0
    /\ frame_count >= 2

\* C2: on every exit path of a conversion job, the workspace directory and
\* every frame file in it are absent when the job has ended.  Stated for
\* runs with a valid frame rate, where it already fails.
C2_WorkspaceRemoved ==
    (pc = "done" /\ hist.mkdirDone /\ ValidRun) =>
        (wsKind # "dir" /\ wsFrames = {})

\* C3: when a job ends in failure, no partial file is left at the output
\* path.  Stated for runs with a valid frame rate, where it already fails.
C3_NoPartialOutput ==
    (pc = "done" /\ exitCode # 0 /\ ValidRun) => output # "partial"

\* C4: the encoder executable is validated before any work of the job: the
\* workspace is created, the audio opened, a frame rendered or the encoder
\* run on frames only after a successful probe, and a failed probe ends the
\* process with a non-zero exit and none of that done.
C4_PreflightFirst ==
    /\ (hist.mkdirDone \/ hist.audio # "not_opened" \/ frame_count > 0
          \/ hist.encoder # "not_run") => hist.probe = "ok"
    /\ hist.probe \in {"missing", "nonzero"} =>
          /\ pc = "done"
          /\ exitCode # 0
          /\ ~hist.mkdirDone
          /\ hist.audio = "not_opened"
          /\ frames = <<>>
          /\ hist.encoder = "not_run"

\* The probe failed and the process has ended, the workspace path untouched.
C4_Witness ==
    /\ hist.probe = "missing"
    /\ pc = "done"
    /\ wsKind = "absent"

\* C5: the exit code is 1 on a missing input file, an encoder that is not
\* found, an undecodable audio file, an encoder that exits non-zero or
\* cannot be started; it is 0 exactly when no step of the job failed (the
\* encoder exited 0 and the cleanup completed); it is never anything else.
C5_ExitCode ==
    pc = "done" =>
        /\ exitCode \in {0, 1}
        /\ ~inputExists => exitCode = 1
        /\ hist.probe \in {"missing", "nonzero"} => exitCode = 1
        /\ hist.audio = "undecodable" => exitCode = 1
        /\ hist.encoder \in {"nonzero_early", "nonzero_partial", "not_found"}
              => exitCode = 1
        /\ exitCode = 0 <=> (hist.encoder = "ok" /\ hist.cleanup = "ok")

\* The encoder exited non-zero and the process has ended.
C5_Witness ==
    /\ pc = "done"
    /\ hist.encoder = "nonzero_partial"
    /\ hist.cleanup = "ok"
    /\ exitCode = 1

\* C6: when the encoder is invoked, the frame files in the workspace are
\* exactly frame 0 .. frame n-1 of the n frames this run rendered.  Stated
\* for runs with a valid frame rate, where it already fails.
C6_EncoderSeesOwnFrames ==
    (hist.encoder # "not_run" /\ ValidRun) =>
        hist.encoderSaw = 0..(frame_count - 1)

\* C7: the vertical bounds set for a rendered frame are never equal: the
\* upper bound is above the lower one, also for a constant series.  Stated
\* for runs with a valid frame rate, where it already fails.
C7_NonZeroSpan ==
    ValidRun => \A k \in 1..Len(frames) : frames[k].upper > frames[k].lower

\* C8: the chunks of a run are sequential, non-overlapping and cover the
\* stream exactly once: frame k is rendered from sample frames
\* [k*chunk, min((k+1)*chunk, total)), and the series lengths sum to
\* total_sample_frames.
C8_ChunksCoverStream ==
    hist.loopEnded =>
        /\ \A k \in 0..(frame_count - 1) :
              /\ frames[k + 1].start = k * chunk_size
              /\ SeriesLen(k + 1) =
                    MinOf((k + 1) * chunk_size, total_frames) - k * chunk_size
              /\ SeriesLen(k + 1) > 0
        /\ TotalSeriesLen(Len(frames)) = total_frames

\* C9: the read loop never runs with a chunk length below 1, and a
\* non-empty stream is never handed to the encoder as zero frames.
C9_ChunkAtLeastOne ==
    /\ pc = "loop" => chunk_size >= 1
    /\ (hist.encoder # "not_run" /\ total_frames > 0) => frame_count > 0

\* C10: every sample of a rendered frame lies inside the vertical bounds
\* set for it: min*1.1 <= s <= max*1.1.  Stated for runs with a valid frame
\* rate, where it already fails.
C10_SamplesInsideBounds ==
    ValidRun =>
        \A k \in 1..Len(frames) :
            \A i \in 1..Len(frames[k].series) :
                /\ frames[k].lower <= 10 * frames[k].series[i]
                /\ 10 * frames[k].series[i] <= frames[k].upper

====
